---- MODULE Spec2Model ----
(***************************************************************************)
(* State-machine model of the podcast assembler of snapcast-backend        *)
(* (src/src/main.py; src/src/research.py carries the same code from        *)
(* load_accounts to create_and_mix_audio).                                 *)
(*                                                                         *)
(* One sequential flow of control.  Every remote call (identity exchange,  *)
(* primary synthesis, fallback convert) and every decode is one step whose *)
(* outcome is chosen by the environment.  Times are milliseconds, except   *)
(* a segment's start_time, which is in seconds as in the script.           *)
(*                                                                         *)
(* Environment, as section 6 of the specification describes it: a status   *)
(* 200 answer of the identity exchange carries a non-empty idToken; the    *)
(* k-th credential line of auth.txt holds the identity named k; a script's *)
(* segments are drawn one by one as the mixing loop reads them.  The       *)
(* variables named h_... are history variables: they record what has       *)
(* happened and no action's guard reads them (the call driver's bound      *)
(* aside).                                                                 *)
(*                                                                         *)
(* Texts are sequences of tokens: "[", "]", a whitespace character, or a   *)
(* word, which stands for a non-empty run of characters that are neither   *)
(* brackets nor whitespace.  The text of a segment has no influence on the *)
(* flow of control, so extract_emotion_and_text and the choice of the      *)
(* stability are modelled on their own, by SpecText.                       *)
(***************************************************************************)
EXTENDS Integers, Sequences, FiniteSets, TLC

\* ---------------------------------------------------------------- bounds
MaxLines == 3       \* lines of auth.txt
MaxSegs == 3        \* segments of a generated script
MaxCalls == 7       \* text_to_speech_v3 calls made by the call driver
MaxTextLen == 5     \* tokens of an enumerated dialogue text

\* StartTimes: start_time values (seconds) a script may carry.
StartTimes == {0, 2}
\* Durations: lengths (ms) a decoded clip may have.
Durations == {1000, 3000}
\* TokenValues: idToken strings the identity service may issue.
TokenValues == {"tokA", "tokB"}

\* ------------------------------------------------------ program constants
RotateThreshold == 2        \* should_rotate_account: tts_request_count >= 2
AuthMaxRetries == 3         \* get_firebase_token: max_retries
TtsMaxRetries == 5          \* text_to_speech_v3: max_retries
GapMs == 500                \* create_and_mix_audio: previous_end_time + 500
MsPerSecond == 1000         \* create_and_mix_audio: start_time * 1000

\* Python's None, for each kind of value that can be None.
None == "None"
NoToken == [owner |-> 0, value |-> "None"]
NoAccount == [email |-> 0, password |-> 0]
NoSegment == [type |-> "None", speaker |-> "None", start_time |-> 0]

\* VOICE_MAPPING: speaker label -> voice id.
VOICE_MAPPING ==
    [s \in {"host", "male_guest", "female_guest"} |->
        CASE s = "host" -> "mgugV8tLa3KQE4mfYTw5"
          [] s = "male_guest" -> "K3qo7ugXmpT87FDhLBbN"
          [] s = "female_guest" -> "KlstlYt9VVf3zgie2Oht"]

\* Mutant: every speaker gets the host's voice.
VoiceOfAnyone(speaker) == "mgugV8tLa3KQE4mfYTw5"

\* VOICE_MAPPING.get(speaker)
VoiceOf(speaker) ==
    IF speaker \in DOMAIN VOICE_MAPPING THEN VOICE_MAPPING[speaker] ELSE None

\* ------------------------------------------------------------- inputs
\* A line of auth.txt: a credential line "handle:secret", a non-empty line
\* without ':', or a blank line.
LineKinds == {"cred", "nocolon", "blank"}

RECURSIVE SeqsUpTo(_, _)
SeqsUpTo(S, n) ==
    IF n = 0 THEN {<<>>}
    ELSE LET shorter == SeqsUpTo(S, n - 1)
         IN  shorter \cup {Append(s, x) : s \in {t \in shorter : Len(t) = n - 1}, x \in S}

\* auth.txt: missing, or a sequence of lines.
MissingFile == [exists |-> FALSE, lines |-> <<>>]
AuthFiles ==
    {MissingFile} \cup [exists : {TRUE}, lines : SeqsUpTo(LineKinds, MaxLines)]

\* A script segment as generate_podcast_script returns it.  "AI" is the
\* speaker of the prompt's example that VOICE_MAPPING does not know.
Segments ==
    [type : {"dialogue"}, speaker : {"host"}, start_time : StartTimes]
    \cup [type : {"dialogue"}, speaker : {"AI"}, start_time : {0}]
    \cup [type : {"sfx"}, speaker : {"host"}, start_time : {0}]

\* The chunks of a status-200 synthesis answer (r.iter_content) or of the
\* convert call's audio stream, in arrival order; a chunk is a byte string.
Streams == {<<>>, <<"a", "b">>, <<"b", "a">>}

\* Tokens of a dialogue text: brackets, whitespace characters, words.
Whitespace == {" ", "\t"}
Words == {"excited", "whispers", "hi"}
Tokens == {"[", "]", " "} \cup Words

\* Dialogue texts of the specification and of the script prompt
\* (main.py 68-74, 109), and one text for every marker the stability rule
\* names.
ExampleTexts ==
    {<<"[", "excited", "]", " ", "hi", " ", "[", "whispers", "]", " ", "there">>,
     <<"no", " ", "markers", " ", "here">>,
     <<"[", "mysterious", "]", " ", "today", " ", "[", "whispers", "]", " ", "ready?">>,
     <<"[", "whispers", "]", "[", "excited", "]", " ", "hi">>,
     <<"[", "excited", "]", " ", "[", "excited", "]">>,
     <<" ", "hi", " ", "\t", " ", "there", " ">>}
    \cup {<<"[", w, "]", " ", "hi">> :
            w \in {"excited", "dramatic", "nervous", "whispers", "serious",
                   "thoughtful", "sarcastically"}}

\* segment["text"] of a dialogue segment: every text of up to MaxTextLen
\* tokens, and the example texts.
Texts == SeqsUpTo(Tokens, MaxTextLen) \cup ExampleTexts

\* len(script["segments"]) of a generated script.  The segments themselves
\* are drawn from Segments one by one, as the loop of create_and_mix_audio
\* reads them.
ScriptLengths == 0..MaxSegs

VARIABLES
    accounts,               \* global accounts: sequence of [email, password]
    current_account_index,  \* global cursor, 0-based as in the code
    tts_request_count,      \* global per-identity request counter
    current_token,          \* global cached token, or NoToken
    firebase_api_key,       \* os.getenv("FIREBASE_API_KEY") is set
    pc,                     \* position of the single flow of control
    n_segments,             \* len(script["segments"])
    i,                      \* create_and_mix_audio: loop index, 1-based here
    segment,                \* create_and_mix_audio: the segment read last
    previous_end_time,      \* create_and_mix_audio: previous_end_time
    final_podcast,          \* the canvas: the overlays made, in order
    token,                  \* text_to_speech_v3: local token
    attempt,                \* loop variable of the running retry loop
    audio_bytes,            \* result of text_to_speech_v3 / the fallback
    h_loaded,               \* history: accounts as load_accounts left them
    h_calls,                \* history: text_to_speech_v3 calls begun
    h_counted,              \* history: increment_tts_count executions
    h_ok,                   \* history: driver calls that returned audio
    h_call_k,               \* history: h_calls when the running call began
    h_call_m,               \* history: h_counted when the running call began
    h_rotations,            \* history: rotate_account executions
    h_auth_requests,        \* history: exchange requests of the running call
    h_synth_requests,       \* history: synthesis requests of the running call
    h_fallback_calls,       \* history: convert calls of the running segment
    h_last,                 \* history: outcome of the last remote answer
    h_clip,                 \* history: how the last overlay came about
    h_stream,               \* history: the chunks of the last audio answer
    h_file,                 \* history: <<auth.txt>> as read, until main goes on
    text,                   \* segment["text"] / text_to_speech_v3's text
    emotions,               \* the emotions argument of text_to_speech_v3
    cleaned_text,           \* extract_emotion_and_text: cleaned_text
    stability               \* text_to_speech_v3: stability

vars == <<accounts, current_account_index, tts_request_count, current_token,
          firebase_api_key, pc, n_segments, i, segment, previous_end_time,
          final_podcast, token, attempt, audio_bytes, h_loaded, h_calls,
          h_counted, h_ok, h_call_k, h_call_m, h_rotations, h_auth_requests,
          h_synth_requests, h_fallback_calls, h_last, h_clip, h_stream,
          h_file, text, emotions, cleaned_text, stability>>

globals == <<accounts, current_account_index, tts_request_count, current_token>>
mixer == <<n_segments, i, segment, previous_end_time, final_podcast, h_clip>>
NoClip == [seg |-> 0, planned |-> 0, before |-> 0, via |-> "None"]
callhist == <<h_calls, h_counted, h_ok, h_call_k, h_call_m, h_rotations>>
parser == <<text, emotions, cleaned_text, stability>>

\* The emotions parameter: None (the default), or a list of markers.
NoEmotions == [given |-> FALSE, list |-> <<>>]

\* Module-level initial values (main.py 42-45), before main() runs; no
\* function has run, so that no local has a value.
InitProgram ==
    /\ accounts = <<>>
    /\ current_account_index = 0
    /\ tts_request_count = 0
    /\ current_token = NoToken
    /\ firebase_api_key \in BOOLEAN
    /\ n_segments = 0
    /\ i = 0
    /\ segment = NoSegment
    /\ h_clip = NoClip
    /\ previous_end_time = 0
    /\ final_podcast = <<>>
    /\ token = NoToken
    /\ attempt = 0
    /\ audio_bytes = None
    /\ h_loaded = <<>>
    /\ h_calls = 0
    /\ h_counted = 0
    /\ h_ok = 0
    /\ h_call_k = 0
    /\ h_call_m = 0
    /\ h_rotations = 0
    /\ h_auth_requests = 0
    /\ h_synth_requests = 0
    /\ h_fallback_calls = 0
    /\ h_last = None
    /\ h_stream = <<>>
    /\ h_file = <<>>

NoText ==
    /\ text = <<>>
    /\ emotions = NoEmotions
    /\ cleaned_text = <<>>
    /\ stability = None

\* The program is started: main() is about to run.
Init ==
    /\ InitProgram
    /\ NoText
    /\ pc = "main"

\* ------------------------------------------------------ account management
\* load_accounts' loop: one account per line that is non-empty and has ':'.
\* Mutant: every non-blank line yields an account.
AcceptsLineNoColon(line) == line # "blank"

\* load_accounts, line 144: `if line and ':' in line`, line being stripped.
AcceptsLine(line) == line = "cred"

RECURSIVE ParseAccounts(_, _)
ParseAccounts(lines, acc) ==
    IF lines = <<>> THEN acc
    ELSE ParseAccounts(Tail(lines),
            IF AcceptsLine(Head(lines))
            THEN Append(acc, [email |-> Len(acc) + 1, password |-> Len(acc) + 1])
            ELSE acc)

\* load_accounts, called by main: FileNotFoundError -> False, accounts kept;
\* otherwise accounts is rebuilt and the result is len(accounts) > 0.
LoadAccounts ==
    /\ pc = "main"
    /\ \E f \in AuthFiles :
        LET parsed == IF f.exists THEN ParseAccounts(f.lines, <<>>) ELSE accounts
            ok == f.exists /\ Len(parsed) > 0
        IN  /\ accounts' = parsed
            /\ h_loaded' = parsed
            /\ h_file' = <<f>>
            /\ pc' = IF ok THEN "loaded" ELSE "exit"
    /\ UNCHANGED <<current_account_index, tts_request_count, current_token,
                   firebase_api_key, parser, h_stream, mixer, token, attempt, audio_bytes,
                   callhist, h_auth_requests, h_synth_requests,
                   h_fallback_calls, h_last>>

\* get_current_account
get_current_account ==
    IF accounts = <<>> THEN NoAccount ELSE accounts[current_account_index + 1]

\* Mutant: the rotation check fires one request late.
should_rotate_late == tts_request_count > RotateThreshold

\* should_rotate_account
should_rotate_account == tts_request_count >= RotateThreshold

\* Mutant: the cursor is advanced without wrapping.
RotatedIndexNoWrap == current_account_index + 1

\* rotate_account: the new cursor
RotatedIndex == (current_account_index + 1) % Len(accounts)

\* Mutants: rotation keeps the counter / the cached token.
RotatedCountKept == tts_request_count
RotatedTokenKept == current_token

\* rotate_account: the counter and the cached token it leaves
RotatedCount == 0
RotatedToken == NoToken

\* The identity service's answer to a status-200 exchange for `email`.
IssuedTokens(email) == [owner : {email}, value : TokenValues]

\* Answers that are not a success: a non-200 status, or a RequestException.
Failures == {"non200", "neterr"}

\* b"" + chunk + chunk ... / b"".join(stream): the chunks in their order.
RECURSIVE Joined(_)
Joined(stream) ==
    IF stream = <<>> THEN "" ELSE Head(stream) \o Joined(Tail(stream))

\* Mutant: only None counts as no audio.
FalsyNoneOnly(bytes) == bytes = None

\* Python truthiness of audio_bytes: None and b"" are falsy.
Falsy(bytes) == bytes = None \/ bytes = ""

\* ------------------------------------------------------ text_to_speech_v3
\* Entry bookkeeping shared by both branches of the rotation check.
EnterCall ==
    /\ h_calls' = h_calls + 1
    /\ h_call_k' = h_calls
    /\ h_call_m' = h_counted
    /\ h_auth_requests' = 0
    /\ h_synth_requests' = 0
    /\ h_last' = None
    /\ h_stream' = <<>>
    /\ pc' = "get_token"
    /\ UNCHANGED <<accounts, firebase_api_key, parser, h_file, mixer, token, attempt,
                   audio_bytes, h_loaded, h_counted, h_ok, h_fallback_calls>>

\* text_to_speech_v3, lines 265-267, should_rotate_account() true:
\* rotate_account().
RotateAccount ==
    /\ pc = "tts_entry"
    /\ should_rotate_account
    /\ current_account_index' = RotatedIndex
    /\ tts_request_count' = RotatedCount
    /\ current_token' = RotatedToken
    /\ h_rotations' = h_rotations + 1
    /\ EnterCall

\* text_to_speech_v3, lines 265-267, should_rotate_account() false.
NoRotation ==
    /\ pc = "tts_entry"
    /\ ~should_rotate_account
    /\ UNCHANGED <<current_account_index, tts_request_count, current_token,
                   h_rotations>>
    /\ EnterCall

\* Mutant: the cache is never consulted.
TokenCachedNever == FALSE

\* get_firebase_token, line 203: a token is cached.
TokenCached == current_token # NoToken

\* Mutant: the missing account goes unnoticed.
NoAccountAvailableNever == FALSE

\* get_firebase_token, lines 207-208: `if not account`.
NoAccountAvailable == get_current_account = NoAccount

\* get_firebase_token up to its retry loop (lines 198-237): the cached token
\* is returned; without an account or an API key None is returned; otherwise
\* the retry loop starts.
GetFirebaseToken ==
    /\ pc = "get_token"
    /\ IF TokenCached
       THEN /\ token' = current_token
            /\ pc' = "token_check"
            /\ UNCHANGED attempt
       ELSE IF NoAccountAvailable \/ ~firebase_api_key
       THEN /\ token' = NoToken
            /\ pc' = "token_check"
            /\ UNCHANGED attempt
       ELSE /\ attempt' = 0
            /\ pc' = "auth"
            /\ UNCHANGED token
    /\ UNCHANGED <<globals, firebase_api_key, parser, h_file, h_stream, mixer, audio_bytes, h_loaded,
                   callhist, h_auth_requests, h_synth_requests,
                   h_fallback_calls, h_last>>

\* get_firebase_token, lines 241-246: the exchange answers 200; the token is
\* cached and returned.
AuthOk ==
    /\ pc = "auth"
    /\ \E t \in IssuedTokens(get_current_account.email) :
        /\ current_token' = t
        /\ token' = t
    /\ h_auth_requests' = h_auth_requests + 1
    /\ h_last' = "200"
    /\ pc' = "token_check"
    /\ UNCHANGED <<accounts, current_account_index, tts_request_count,
                   firebase_api_key, parser, h_file, h_stream, mixer, attempt, audio_bytes, h_loaded,
                   callhist, h_synth_requests, h_fallback_calls>>

\* Mutant: the loop gives up one attempt early.
AuthRetriesShort(a) == a < AuthMaxRetries - 2

\* get_firebase_token: one more attempt follows attempt number `a` (0-based).
AuthRetries(a) == a < AuthMaxRetries - 1

\* get_firebase_token, lines 247-259: a non-200 answer or a transport error;
\* the loop goes on, or ends after max_retries attempts and returns None.
AuthFail ==
    /\ pc = "auth"
    /\ \E kind \in Failures : h_last' = kind
    /\ h_auth_requests' = h_auth_requests + 1
    /\ IF AuthRetries(attempt)
       THEN /\ attempt' = attempt + 1
            /\ UNCHANGED <<pc, token>>
       ELSE /\ token' = NoToken
            /\ pc' = "token_check"
            /\ UNCHANGED attempt
    /\ UNCHANGED <<globals, firebase_api_key, parser, h_file, h_stream, mixer, audio_bytes, h_loaded,
                   callhist, h_synth_requests, h_fallback_calls>>

\* Mutant: the counter is not advanced.
IncrementedCountStuck == tts_request_count

\* increment_tts_count: the counter it leaves
IncrementedCount == tts_request_count + 1

\* Mutant: the missing token goes unnoticed.
TokenUnavailableNever(t) == FALSE

\* text_to_speech_v3, line 271: `if not token`.
TokenUnavailable(t) == t = NoToken

\* text_to_speech_v3, lines 270-313: without a token return None; with one,
\* build the headers, increment_tts_count() and enter the retry loop.
TokenCheck ==
    /\ pc = "token_check"
    /\ IF TokenUnavailable(token)
       THEN /\ audio_bytes' = None
            /\ pc' = "tts_ret"
            /\ UNCHANGED <<tts_request_count, h_counted, attempt>>
       ELSE /\ tts_request_count' = IncrementedCount
            /\ h_counted' = h_counted + 1
            /\ attempt' = 0
            /\ pc' = "synth"
            /\ UNCHANGED audio_bytes
    /\ UNCHANGED <<accounts, current_account_index, current_token,
                   firebase_api_key, parser, h_file, h_stream, mixer, token, h_loaded, h_calls, h_ok,
                   h_call_k, h_call_m, h_rotations, h_auth_requests,
                   h_synth_requests, h_fallback_calls, h_last>>

\* text_to_speech_v3, lines 318-327: the synthesis answers 200; the chunks
\* are collected and returned.
SynthOk ==
    /\ pc = "synth"
    /\ \E stream \in Streams :
        /\ audio_bytes' = Joined(stream)
        /\ h_stream' = stream
    /\ h_synth_requests' = h_synth_requests + 1
    /\ h_last' = "200"
    /\ pc' = "tts_ret"
    /\ UNCHANGED <<globals, firebase_api_key, parser, h_file, mixer, token, attempt, h_loaded,
                   callhist, h_auth_requests, h_fallback_calls>>

\* Mutant: the loop gives up one attempt early.
TtsRetriesShort(a) == a < TtsMaxRetries - 2

\* text_to_speech_v3: one more attempt follows attempt number `a` (0-based).
TtsRetries(a) == a < TtsMaxRetries - 1

\* text_to_speech_v3, lines 328-346: a non-200 answer or a transport error;
\* the loop goes on, or ends after max_retries attempts and returns None.
SynthFail ==
    /\ pc = "synth"
    /\ \E kind \in Failures : h_last' = kind
    /\ h_synth_requests' = h_synth_requests + 1
    /\ IF TtsRetries(attempt)
       THEN /\ attempt' = attempt + 1
            /\ UNCHANGED <<pc, audio_bytes>>
       ELSE /\ audio_bytes' = None
            /\ pc' = "tts_ret"
            /\ UNCHANGED attempt
    /\ UNCHANGED <<globals, firebase_api_key, parser, h_file, h_stream, mixer, token, h_loaded,
                   callhist, h_auth_requests, h_fallback_calls>>

TtsStep ==
    \/ RotateAccount
    \/ NoRotation
    \/ GetFirebaseToken
    \/ AuthOk
    \/ AuthFail
    \/ TokenCheck
    \/ SynthOk
    \/ SynthFail

\* -------------------------------------------------------------------- main
\* main, lines 446-451: generate_podcast_script returns None or a script;
\* create_and_mix_audio(script) starts with an empty timeline.
GenerateScript ==
    /\ pc = "loaded"
    /\ \/ /\ pc' = "exit"
          /\ UNCHANGED <<n_segments, i>>
       \/ /\ n_segments' \in ScriptLengths
          /\ i' = 1
          /\ pc' = "mix"
    /\ previous_end_time' = 0
    /\ final_podcast' = <<>>
    /\ h_file' = <<>>
    /\ UNCHANGED <<segment, h_clip>>
    /\ UNCHANGED <<globals, firebase_api_key, parser, h_stream, token, attempt, audio_bytes,
                   h_loaded, callhist, h_auth_requests, h_synth_requests,
                   h_fallback_calls, h_last>>

\* ---------------------------------------------------- create_and_mix_audio
\* Mutant: the loop does not move on to the next segment.
NextSegmentStay(k) == k

\* `for i, segment in enumerate(script["segments"])`: the index that
\* follows k.
NextSegment(k) == k + 1

\* The end of a loop iteration: its locals, and the history of its calls,
\* are dead.
EndIteration ==
    /\ segment' = NoSegment
    /\ token' = NoToken
    /\ attempt' = 0
    /\ audio_bytes' = None
    /\ h_auth_requests' = 0
    /\ h_synth_requests' = 0
    /\ h_fallback_calls' = 0
    /\ h_last' = None
    /\ h_stream' = <<>>

\* create_and_mix_audio, lines 374-378: a segment that is no dialogue.
SkipNonDialogue ==
    /\ pc = "mix"
    /\ i <= n_segments
    /\ \E seg \in Segments :
        /\ seg.type # "dialogue"
        /\ segment' = seg
    /\ i' = NextSegment(i)
    /\ UNCHANGED <<globals, firebase_api_key, parser, h_file, h_stream, pc, n_segments,
                   previous_end_time, final_podcast, h_clip, token, attempt,
                   audio_bytes, h_loaded, callhist, h_auth_requests,
                   h_synth_requests, h_fallback_calls, h_last>>

\* create_and_mix_audio, lines 383-387: a speaker without a voice.
SkipUnmapped ==
    /\ pc = "mix"
    /\ i <= n_segments
    /\ \E seg \in Segments :
        /\ seg.type = "dialogue"
        /\ VoiceOf(seg.speaker) = None
        /\ segment' = seg
    /\ i' = NextSegment(i)
    /\ UNCHANGED <<globals, firebase_api_key, parser, h_file, h_stream, pc, n_segments,
                   previous_end_time, final_podcast, h_clip, token, attempt,
                   audio_bytes, h_loaded, callhist, h_auth_requests,
                   h_synth_requests, h_fallback_calls, h_last>>

\* create_and_mix_audio, lines 389-393: text_to_speech_v3 is called.
BeginDialogue ==
    /\ pc = "mix"
    /\ i <= n_segments
    /\ \E seg \in Segments :
        /\ seg.type = "dialogue"
        /\ VoiceOf(seg.speaker) # None
        /\ segment' = seg
    /\ pc' = "tts_entry"
    /\ UNCHANGED <<globals, firebase_api_key, parser, h_file, h_stream, n_segments, i,
                   previous_end_time, final_podcast, h_clip, token, attempt,
                   audio_bytes, h_loaded, callhist, h_auth_requests,
                   h_synth_requests, h_fallback_calls, h_last>>

\* Mutant: an exception raised inside the loop body ends the run.
AfterExceptionAbort == "exit"

\* create_and_mix_audio, lines 424-425: `except Exception` reports and the
\* loop goes on.
AfterException == "mix"

\* Mutant: no fallback whatever text_to_speech_v3 returned.
NeedsFallbackNever(bytes) == FALSE

\* create_and_mix_audio, line 395: `if not audio_bytes`.
NeedsFallback(bytes) == Falsy(bytes)

\* create_and_mix_audio, lines 393-398: text_to_speech_v3 has returned.
AfterTts ==
    /\ pc = "tts_ret"
    /\ pc' = IF NeedsFallback(audio_bytes) THEN "fallback" ELSE "write"
    /\ UNCHANGED <<globals, firebase_api_key, parser, h_file, h_stream, mixer, token, attempt,
                   audio_bytes, h_loaded, callhist, h_auth_requests,
                   h_synth_requests, h_fallback_calls, h_last>>

\* create_and_mix_audio, lines 398-408: the convert call returns its bytes.
FallbackOk ==
    /\ pc = "fallback"
    /\ \E stream \in Streams :
        /\ audio_bytes' = Joined(stream)
        /\ h_stream' = stream
    /\ h_fallback_calls' = h_fallback_calls + 1
    /\ h_last' = "200"
    /\ pc' = "write"
    /\ UNCHANGED <<globals, firebase_api_key, parser, h_file, mixer, token, attempt, h_loaded,
                   callhist, h_auth_requests, h_synth_requests>>

\* create_and_mix_audio, lines 398-408 and 424-425: the convert call raises;
\* the exception ends the iteration.
FallbackFail ==
    /\ pc = "fallback"
    /\ i' = NextSegment(i)
    /\ pc' = AfterException
    /\ EndIteration
    /\ UNCHANGED <<globals, firebase_api_key, parser, h_file, n_segments, previous_end_time,
                   final_podcast, h_clip, h_loaded, callhist>>

\* create_and_mix_audio, lines 411-415 and 424-425: writing or decoding the
\* audio raises (always so for no bytes); the exception ends the iteration.
DecodeFail ==
    /\ pc = "write"
    /\ i' = NextSegment(i)
    /\ pc' = AfterException
    /\ EndIteration
    /\ UNCHANGED <<globals, firebase_api_key, parser, h_file, n_segments, previous_end_time,
                   final_podcast, h_clip, h_loaded, callhist>>

Max(a, b) == IF a >= b THEN a ELSE b

\* Mutant: the gap is left out.
AdjustedStartNoGap(start_time_ms, prev_end) == Max(start_time_ms, prev_end)

\* create_and_mix_audio, line 418: adjusted_start_time.
AdjustedStart(start_time_ms, prev_end) == Max(start_time_ms, prev_end + GapMs)

\* Mutant: the clip's length is left out of previous_end_time.
ClipEndNoLength(adjusted, length) == adjusted

\* create_and_mix_audio, line 422: the next previous_end_time.
ClipEnd(adjusted, length) == adjusted + length

\* create_and_mix_audio, lines 411-422: the audio decodes to a clip of some
\* length, which is overlaid at the adjusted start.
PlaceClip ==
    /\ pc = "write"
    /\ ~Falsy(audio_bytes)
    /\ \E length \in Durations :
        LET start_time_ms == segment.start_time * MsPerSecond
            adjusted == AdjustedStart(start_time_ms, previous_end_time)
        IN  /\ final_podcast' = Append(final_podcast,
                    [position |-> adjusted, length |-> length])
            /\ previous_end_time' = ClipEnd(adjusted, length)
            /\ h_clip' = [seg |-> i, planned |-> start_time_ms,
                          before |-> previous_end_time,
                          via |-> IF h_fallback_calls > 0 THEN "fallback"
                                  ELSE "primary"]
    /\ i' = NextSegment(i)
    /\ pc' = "mix"
    /\ EndIteration
    /\ UNCHANGED <<globals, firebase_api_key, parser, h_file, n_segments, h_loaded, callhist>>

\* create_and_mix_audio, lines 428-432: the loop is over; export.
Export ==
    /\ pc = "mix"
    /\ i > n_segments
    /\ pc' = "done"
    /\ UNCHANGED <<globals, firebase_api_key, parser, h_file, h_stream, mixer, token, attempt,
                   audio_bytes, h_loaded, callhist, h_auth_requests,
                   h_synth_requests, h_fallback_calls, h_last>>

MixStep ==
    \/ SkipNonDialogue
    \/ SkipUnmapped
    \/ BeginDialogue
    \/ AfterTts
    \/ FallbackOk
    \/ FallbackFail
    \/ DecodeFail
    \/ PlaceClip
    \/ Export

Next ==
    \/ LoadAccounts
    \/ GenerateScript
    \/ TtsStep
    \/ MixStep

Spec == Init /\ [][Next]_vars

\* --------------------------------------------------------- call sequences
\* A caller that, once the accounts are loaded, calls text_to_speech_v3 up
\* to MaxCalls times in a row, as create_and_mix_audio does for a script of
\* mapped dialogue segments.
DriverCall ==
    /\ pc = "loaded"
    /\ h_calls < MaxCalls
    /\ pc' = "tts_entry"
    /\ EndIteration
    /\ h_file' = <<>>
    /\ UNCHANGED <<globals, firebase_api_key, parser, n_segments, i,
                   previous_end_time, final_podcast, h_clip, h_loaded,
                   callhist>>

DriverReturn ==
    /\ pc = "tts_ret"
    /\ pc' = "loaded"
    /\ h_ok' = IF ~Falsy(audio_bytes) THEN h_ok + 1 ELSE h_ok
    /\ UNCHANGED <<globals, firebase_api_key, parser, h_file, h_stream, mixer, token, attempt,
                   audio_bytes, h_loaded, h_calls, h_counted, h_call_k,
                   h_call_m, h_rotations, h_auth_requests, h_synth_requests,
                   h_fallback_calls, h_last>>

NextCalls ==
    \/ LoadAccounts
    \/ DriverCall
    \/ TtsStep
    \/ DriverReturn

SpecCalls == Init /\ [][NextCalls]_vars

\* A caller that calls text_to_speech_v3 although load_accounts has returned
\* False: the pool is empty.
DriverCallUnloaded ==
    /\ pc = "exit"
    /\ accounts = <<>>
    /\ h_calls < MaxCalls
    /\ pc' = "tts_entry"
    /\ EndIteration
    /\ h_file' = <<>>
    /\ UNCHANGED <<globals, firebase_api_key, parser, n_segments, i,
                   previous_end_time, final_podcast, h_clip, h_loaded,
                   callhist>>

NextLibrary ==
    \/ LoadAccounts
    \/ DriverCall
    \/ DriverCallUnloaded
    \/ TtsStep
    \/ DriverReturn

SpecLibrary == Init /\ [][NextLibrary]_vars

\* ---------------------------------------------------------------- progress
\* main after load_accounts has read an auth.txt of two credential lines.
TwoCredentials == [exists |-> TRUE, lines |-> <<"cred", "cred">>]

InitLoaded ==
    /\ accounts = ParseAccounts(TwoCredentials.lines, <<>>)
    /\ current_account_index = 0
    /\ tts_request_count = 0
    /\ current_token = NoToken
    /\ firebase_api_key \in BOOLEAN
    /\ pc = "loaded"
    /\ n_segments = 0
    /\ i = 0
    /\ segment = NoSegment
    /\ h_clip = NoClip
    /\ previous_end_time = 0
    /\ final_podcast = <<>>
    /\ token = NoToken
    /\ attempt = 0
    /\ audio_bytes = None
    /\ h_loaded = accounts
    /\ h_calls = 0
    /\ h_counted = 0
    /\ h_ok = 0
    /\ h_call_k = 0
    /\ h_call_m = 0
    /\ h_rotations = 0
    /\ h_auth_requests = 0
    /\ h_synth_requests = 0
    /\ h_fallback_calls = 0
    /\ h_last = None
    /\ h_stream = <<>>
    /\ h_file = <<TwoCredentials>>
    /\ NoText

\* main from the script generation on.
NextLoaded ==
    \/ GenerateScript
    \/ TtsStep
    \/ MixStep

\* The program is one sequential flow of control and every call it makes
\* returns or raises (requests.post, convert, the decoder): a step that can
\* be taken is taken.
SpecFair == InitLoaded /\ [][NextLoaded]_vars /\ WF_vars(NextLoaded)

\* ------------------------------------------------ extract_emotion_and_text
\* The index of the first "]" of t at or after q, or 0.
RECURSIVE FirstClose(_, _)
FirstClose(t, q) ==
    IF q > Len(t) THEN 0
    ELSE IF t[q] = "]" THEN q
    ELSE FirstClose(t, q + 1)

\* Mutant: the pattern \[([^\]]*)\], which matches "[]" too.
MatchEndOrEmpty(t, p) ==
    IF t[p] # "[" THEN 0 ELSE FirstClose(t, p + 1)

\* emotion_pattern r'\[([^\]]+)\]' tried at position p: the index of the
\* match's last token, or 0 without a match: "[", then one or more tokens
\* other than "]", then "]".
MatchEnd(t, p) ==
    IF t[p] # "[" THEN 0
    ELSE LET q == FirstClose(t, p + 1)
         IN  IF q > p + 1 THEN q ELSE 0

\* The matches of emotion_pattern that re.findall and re.sub find in t from
\* position p on: leftmost first, not overlapping, as <<first, last>>.
RECURSIVE Matches(_, _)
Matches(t, p) ==
    IF p > Len(t) THEN <<>>
    ELSE LET q == MatchEnd(t, p)
         IN  IF q = 0 THEN Matches(t, p + 1)
             ELSE <<<<p, q>>>> \o Matches(t, q + 1)

\* re.findall(emotion_pattern, text): the group of every match, a string.
FindAll(t) ==
    LET m == Matches(t, 1)
    IN  [k \in 1..Len(m) |-> Joined(SubSeq(t, m[k][1] + 1, m[k][2] - 1))]

\* re.sub(emotion_pattern, '', text): t from position k on without the
\* tokens of the matches m.
RECURSIVE WithoutMatches(_, _, _)
WithoutMatches(t, m, k) ==
    IF k > Len(t) THEN <<>>
    ELSE (IF \E j \in 1..Len(m) : m[j][1] <= k /\ k <= m[j][2]
          THEN <<>> ELSE <<t[k]>>) \o WithoutMatches(t, m, k + 1)

\* t without its leading / its trailing whitespace.
RECURSIVE LStrip(_)
LStrip(t) ==
    IF t # <<>> /\ Head(t) \in Whitespace THEN LStrip(Tail(t)) ELSE t

RECURSIVE RStrip(_)
RStrip(t) ==
    IF t # <<>> /\ t[Len(t)] \in Whitespace
    THEN RStrip(SubSeq(t, 1, Len(t) - 1)) ELSE t

\* Mutant: whitespace runs are left as they are.
CollapsedNot(t) == t

\* re.sub(r'\s+', ' ', t): every run of whitespace becomes one space.
RECURSIVE Collapsed(_)
Collapsed(t) ==
    IF t = <<>> THEN <<>>
    ELSE IF Head(t) \in Whitespace
         THEN <<" ">> \o Collapsed(LStrip(Tail(t)))
         ELSE <<Head(t)>> \o Collapsed(Tail(t))

\* str.strip()
Strip(t) == RStrip(LStrip(t))

\* extract_emotion_and_text(text): cleaned_text
CleanedText(t) == Strip(Collapsed(WithoutMatches(t, Matches(t, 1), 1)))

\* text_to_speech_v3, lines 280 and 282: the two lists of markers.
HighEnergy == {"excited", "dramatic", "nervous"}
Composed == {"whispers", "serious", "thoughtful"}

\* any(emotion in names for emotion in list)
AnyIn(list, names) == \E k \in 1..Len(list) : list[k] \in names

\* Mutant: the composed markers are looked for first.
StabilityComposedFirst(e) ==
    IF e.given /\ e.list # <<>>
    THEN IF AnyIn(e.list, Composed) THEN "1.0"
         ELSE IF AnyIn(e.list, HighEnergy) THEN "0.0"
         ELSE "0.5"
    ELSE "0.5"

\* text_to_speech_v3, lines 276-283: the stability of the payload.
Stability(e) ==
    IF e.given /\ e.list # <<>>
    THEN IF AnyIn(e.list, HighEnergy) THEN "0.0"
         ELSE IF AnyIn(e.list, Composed) THEN "1.0"
         ELSE "0.5"
    ELSE "0.5"

\* A dialogue segment's text is about to be processed.
InitText ==
    /\ InitProgram
    /\ pc = "extract"
    /\ text \in Texts
    /\ emotions = NoEmotions
    /\ cleaned_text = <<>>
    /\ stability = None

\* create_and_mix_audio, lines 381-382 and 393: the text is parsed, and
\* text_to_speech_v3 is called with the markers.
ExtractEmotionAndText ==
    /\ pc = "extract"
    /\ emotions' = [given |-> TRUE, list |-> FindAll(text)]
    /\ cleaned_text' = CleanedText(text)
    /\ pc' = "stability"
    /\ UNCHANGED <<globals, firebase_api_key, mixer, token, attempt,
                   audio_bytes, h_loaded, callhist, h_auth_requests,
                   h_synth_requests, h_fallback_calls, h_last, h_stream,
                   h_file, text, stability>>

\* text_to_speech_v3(text, voice_id): emotions keeps its default, None.
CallWithoutEmotions ==
    /\ pc = "extract"
    /\ pc' = "stability"
    /\ UNCHANGED <<globals, firebase_api_key, mixer, token, attempt,
                   audio_bytes, h_loaded, callhist, h_auth_requests,
                   h_synth_requests, h_fallback_calls, h_last, h_stream,
                   h_file, parser>>

\* text_to_speech_v3, lines 276-309: the stability that goes into the
\* payload.
SelectStability ==
    /\ pc = "stability"
    /\ stability' = Stability(emotions)
    /\ pc' = "payload"
    /\ UNCHANGED <<globals, firebase_api_key, mixer, token, attempt,
                   audio_bytes, h_loaded, callhist, h_auth_requests,
                   h_synth_requests, h_fallback_calls, h_last, h_stream,
                   h_file, text, emotions, cleaned_text>>

NextText ==
    \/ ExtractEmotionAndText
    \/ CallWithoutEmotions
    \/ SelectStability

SpecText == InitText /\ [][NextText]_vars

\* ------------------------------------------------------------------ claims
\* Positions of the flow of control inside text_to_speech_v3, past its
\* rotation check.
InCall == pc \in {"get_token", "auth", "token_check", "synth", "tts_ret"}

\* The running call has sent a request to a remote service.
CallHasSent == h_auth_requests + h_synth_requests > 0

\* C1: any two clips placed one after the other on the canvas keep the
\* 500 ms gap: the later one starts no earlier than the end of the earlier
\* one plus 500 ms, whatever the planned starts and whichever synthesis path
\* produced the audio.
C1_NoOverlap ==
    \A n \in 2..Len(final_podcast) :
        final_podcast[n].position >=
            final_podcast[n - 1].position + final_podcast[n - 1].length + 500

\* C1 witness: a second clip, from the fallback path, whose planned start
\* lay before the end of the clip before it.
C1_Witness ==
    /\ Len(final_podcast) >= 2
    /\ h_clip.via = "fallback"
    /\ h_clip.planned < h_clip.before

\* C2 as stated: a call that sends a request, preceded by k earlier calls,
\* runs under identity floor(k / 2) mod poolSize, whether the earlier calls
\* succeeded or failed.
C2_EveryCallCounts ==
    (InCall /\ CallHasSent) =>
        current_account_index = (h_call_k \div 2) % Len(accounts)

\* C2 amended: a call preceded by m earlier calls that obtained a token runs
\* under identity floor(m / 2) mod poolSize; earlier calls that returned for
\* lack of a token are not counted, and the outcome of the synthesis
\* attempts of the counted calls makes no difference.
C2_CountedCallsRotate ==
    InCall =>
        current_account_index = (h_call_m \div 2) % Len(accounts)

\* C2 witness: a call sending its synthesis request on the first identity
\* of a pool of two, after the cursor has wrapped around and after an
\* earlier call went uncounted.
C2_Witness ==
    /\ pc = "synth"
    /\ Len(accounts) = 2
    /\ h_call_m >= 4
    /\ h_call_k > h_call_m
    /\ current_account_index = 0

\* Seven calls have been made on a pool of three and each returned audio.
SevenSuccessfulCalls ==
    /\ pc = "loaded"
    /\ Len(accounts) = 3
    /\ h_calls = 7
    /\ h_ok = 7

\* C3 as stated: with a pool of 3, after 7 successful calls the cursor is 1.
C3_CursorOne == SevenSuccessfulCalls => current_account_index = 1

\* C3 amended: with a pool of 3, after 7 successful calls the cursor is 0
\* (the rotations before calls 3, 5 and 7 take it 0 -> 1 -> 2 -> 0).
C3_CursorZero == SevenSuccessfulCalls => current_account_index = 0

\* C3 witness: the seven successful calls have happened.
C3_Witness == SevenSuccessfulCalls /\ h_rotations = 3

\* C4: the cache holds one token or none, and a cached token is one the
\* identity exchange issued for the identity at the cursor.
C4_TokenOfCurrentIdentity ==
    current_token # NoToken =>
        /\ accounts # <<>>
        /\ current_token \in IssuedTokens(get_current_account.email)

\* C4 witness: a token is cached for an identity the cursor rotated to.
C4_Witness ==
    /\ current_token # NoToken
    /\ current_account_index > 0
    /\ h_rotations > 0

\* C5: with a token cached, get_firebase_token returns it unchanged, keeps
\* it cached and sends no exchange request; an exchange request is sent only
\* while nothing is cached.
C5_CachedTokenReused ==
    [][ /\ (pc = "get_token" /\ current_token # NoToken) =>
            /\ pc' = "token_check"
            /\ token' = current_token
            /\ current_token' = current_token
            /\ h_auth_requests' = h_auth_requests
        /\ (h_auth_requests' > h_auth_requests) => current_token = NoToken
      ]_vars

\* C5 witness: get_firebase_token has returned the cached token without a
\* request.
C5_Witness ==
    /\ pc = "token_check"
    /\ h_auth_requests = 0
    /\ token # NoToken
    /\ token = current_token

\* C6: every execution of rotate_account moves the cursor to
\* (cursor + 1) mod poolSize, zeroes the request counter and empties the
\* token cache, in that one step.
C6_RotateAccount ==
    [][ (h_rotations' # h_rotations) =>
            /\ Len(accounts) > 0
            /\ current_account_index' = (current_account_index + 1) % Len(accounts)
            /\ tts_request_count' = 0
            /\ current_token' = NoToken
      ]_vars

\* C6 witness: the third rotation on a pool of three has wrapped the cursor
\* to 0, with the counter zeroed and the cache emptied.
C6_Witness ==
    /\ pc = "get_token"
    /\ Len(accounts) = 3
    /\ h_rotations = 3
    /\ current_account_index = 0
    /\ tts_request_count = 0
    /\ current_token = NoToken

\* C7: once load_accounts has succeeded, the pool stays exactly as loaded
\* and the cursor is a valid index of it.
C7_PoolAndCursor ==
    Len(h_loaded) > 0 =>
        /\ accounts = h_loaded
        /\ current_account_index \in 0..(Len(accounts) - 1)

\* C7 witness: the run is over, with a clip on the canvas and the cursor
\* rotated to the last identity of the pool.
C7_Witness ==
    /\ pc = "done"
    /\ final_podcast # <<>>
    /\ Len(accounts) >= 2
    /\ current_account_index = Len(accounts) - 1

\* What holds of the retry loop of get_firebase_token in every state.
C8_AuthState ==
    /\ h_auth_requests <= 3
    /\ pc = "auth" =>
        /\ h_auth_requests = attempt
        /\ attempt < 3
        /\ current_token = NoToken
        /\ attempt > 0 => h_last \in Failures
    /\ (pc = "token_check" /\ h_auth_requests > 0 /\ token = NoToken) =>
        /\ h_auth_requests = 3
        /\ h_last \in Failures
        /\ current_token = NoToken
    /\ (pc = "token_check" /\ h_auth_requests > 0 /\ token # NoToken) =>
        /\ h_last = "200"
        /\ current_token = token
        /\ token \in IssuedTokens(get_current_account.email)

\* What holds of every step that sends an exchange request.
C8_AuthStep ==
    (h_auth_requests' = h_auth_requests + 1) =>
        /\ pc = "auth"
        /\ h_last' = "200" =>
            /\ pc' = "token_check"
            /\ token' # NoToken
            /\ current_token' = token'
        /\ (h_last' \in Failures /\ h_auth_requests' < 3) =>
            /\ pc' = "auth"
            /\ current_token' = NoToken
        /\ (h_last' \in Failures /\ h_auth_requests' = 3) =>
            /\ pc' = "token_check"
            /\ token' = NoToken
            /\ current_token' = NoToken

\* C8: with nothing cached, the identity exchange is attempted at most 3
\* times; a failed attempt (non-200 or transport error) is followed by
\* another one until 3 have failed, and only then does get_firebase_token
\* return no token, leaving the cache empty; a 200 answer on any attempt
\* ends the loop, and its token is cached and returned.
C8_AuthRetry == []C8_AuthState /\ [][C8_AuthStep]_vars

\* C8 witness: two attempts failed and the third answered 200; its token is
\* cached and returned.
C8_Witness ==
    /\ pc = "token_check"
    /\ h_auth_requests = 3
    /\ token # NoToken
    /\ current_token = token

\* C9: a text_to_speech_v3 call without a token sends no synthesis request,
\* never enters the synthesis retry loop and returns None.
C9_NoTokenNoSynthesis ==
    token = NoToken =>
        /\ pc # "synth"
        /\ h_synth_requests = 0
        /\ pc = "tts_ret" => audio_bytes = None

\* C9 witness: the call has returned after the exchange used up its
\* attempts.
C9_Witness ==
    /\ pc = "tts_ret"
    /\ token = NoToken
    /\ h_auth_requests = 3

\* The identity exchange of the running segment used up its attempts and
\* left nothing cached.
AuthExhausted ==
    /\ token = NoToken
    /\ current_token = NoToken
    /\ h_auth_requests = 3

\* C10 as stated: once the identity exchange has used up its attempts with
\* nothing cached, no fallback call is made for the segment and no clip is
\* placed for it.
C10_NoFallbackAfterAuthFailure ==
    AuthExhausted => (h_fallback_calls = 0 /\ pc # "write")

\* What holds in every state once the exchange has used up its attempts.
C10_State ==
    AuthExhausted =>
        /\ h_synth_requests = 0
        /\ pc \in {"token_check", "tts_ret", "fallback", "write"}
        /\ h_fallback_calls = (IF pc = "write" THEN 1 ELSE 0)

\* What holds of every step taken from such a state.
C10_Step ==
    AuthExhausted =>
        /\ pc = "tts_ret" => pc' = "fallback"
        /\ final_podcast' # final_podcast =>
            /\ h_clip'.via = "fallback"
            /\ h_clip'.seg = i

\* C10 amended: once the identity exchange has used up its attempts with
\* nothing cached, no primary synthesis request is sent for the segment, and
\* the orchestrator makes the one fallback convert call as after any other
\* failure of text_to_speech_v3; a clip placed for the segment carries the
\* fallback's audio.
C10_FallbackAfterAuthFailure == []C10_State /\ [][C10_Step]_vars

\* C10 witness: after the exchange used up its attempts, the fallback call
\* has returned audio for the segment.
C10_Witness ==
    /\ AuthExhausted
    /\ pc = "write"
    /\ ~Falsy(audio_bytes)
    /\ h_fallback_calls = 1

\* The markers text_to_speech_v3 was called with, as a set: empty for an
\* empty and for an absent list.
MarkersPassed == {emotions.list[k] : k \in 1..Len(emotions.list)}

\* C11: the stability that goes into the payload is 0.0 if any marker
\* passed is excited, dramatic or nervous; otherwise 1.0 if any marker is
\* whispers, serious or thoughtful; otherwise 0.5, also for an empty or an
\* absent marker list.  The high-energy markers win when both kinds are
\* present, and no other value is ever sent.
C11_Stability ==
    pc = "payload" =>
        LET high == MarkersPassed \cap {"excited", "dramatic", "nervous"} # {}
            calm == MarkersPassed \cap {"whispers", "serious", "thoughtful"} # {}
        IN  /\ high => stability = "0.0"
            /\ (~high /\ calm) => stability = "1.0"
            /\ (~high /\ ~calm) => stability = "0.5"
            /\ stability \in {"0.0", "0.5", "1.0"}

\* C11 witness: a payload for markers of both kinds, the composed one
\* first, with stability 0.0.
C11_Witness ==
    /\ pc = "payload"
    /\ emotions.given
    /\ Len(emotions.list) = 2
    /\ emotions.list[1] = "whispers"
    /\ emotions.list[2] = "excited"
    /\ stability = "0.0"

\* Bracket pairs of a text t, described position by position.  A pair ends
\* at a "]" and begins at the first "[" after the "]" before it (the match
\* is the leftmost one and ends at the first "]"), its contents being at
\* least `least` tokens long.
PrevClose(t, q) ==
    LET closes == {r \in 1..(q - 1) : t[r] = "]"}
    IN  IF closes = {} THEN 0
        ELSE CHOOSE r \in closes : \A x \in closes : x <= r

PairOpen(t, q, least) ==
    LET opens == {p \in (PrevClose(t, q) + 1)..(q - 1 - least) : t[p] = "["}
    IN  IF opens = {} THEN 0
        ELSE CHOOSE p \in opens : \A x \in opens : p <= x

PairCloses(t, least) ==
    {q \in 1..Len(t) : t[q] = "]" /\ PairOpen(t, q, least) # 0}

\* The k-th smallest element of a set of numbers, and the set in
\* increasing order.
NthOf(S, k) == CHOOSE x \in S : Cardinality({y \in S : y < x}) = k - 1
InOrder(S) == [k \in 1..Cardinality(S) |-> NthOf(S, k)]

\* The contents of the bracket pairs of t, from left to right.
PairContents(t, least) ==
    LET closes == InOrder(PairCloses(t, least))
    IN  [k \in 1..Len(closes) |->
            Joined(SubSeq(t, PairOpen(t, closes[k], least) + 1, closes[k] - 1))]

\* t without its bracket pairs, whitespace runs collapsed to one space and
\* both ends trimmed: the positions of t that are left, in order.
PairsRemoved(t, least) ==
    LET inPair(k) == \E q \in PairCloses(t, least) :
                        PairOpen(t, q, least) <= k /\ k <= q
        kept == {k \in 1..Len(t) : ~inPair(k)}
        solid == {k \in kept : t[k] \notin Whitespace}
        left == {k \in kept :
                    \/ k \in solid
                    \/ /\ \E a \in solid : a < k
                       /\ \E b \in solid : b > k
                       /\ \E a \in solid : a < k /\ \A x \in kept : ~(a < x /\ x < k)}
        order == InOrder(left)
    IN  [k \in 1..Len(order) |->
            IF t[order[k]] \in Whitespace THEN " " ELSE t[order[k]]]

\* The example text of the specification.
ExampleText ==
    <<"[", "excited", "]", " ", "hi", " ", "[", "whispers", "]", " ", "there">>

\* extract_emotion_and_text has returned.
Extracted == pc \in {"stability", "payload"} /\ emotions.given

\* C17 as stated: the markers are the contents of every bracket pair of the
\* input, from left to right with duplicates kept, and the clean text is the
\* input without every bracket pair, whitespace runs collapsed to one space
\* and both ends trimmed.
C17_EveryBracketPair ==
    Extracted =>
        /\ emotions.list = PairContents(text, 0)
        /\ cleaned_text = PairsRemoved(text, 0)

\* C17 amended: the markers are the contents of every bracket pair with
\* non-empty contents, from left to right with duplicates kept, and the
\* clean text is the input without these pairs, whitespace runs collapsed to
\* one space and both ends trimmed; an empty pair "[]" is no marker and stays
\* in the clean text.  '[excited] hi [whispers] there' gives the markers
\* excited, whispers and the clean text 'hi there'.
C17_NonEmptyBracketPairs ==
    Extracted =>
        /\ emotions.list = PairContents(text, 1)
        /\ cleaned_text = PairsRemoved(text, 1)
        /\ text = ExampleText =>
            /\ emotions.list = <<"excited", "whispers">>
            /\ cleaned_text = <<"hi", " ", "there">>

\* C17 witness: a text with an empty pair and a marker has been parsed; the
\* empty pair is left in the clean text.
C17_Witness ==
    /\ Extracted
    /\ text = <<"[", "]", "[", "hi", "]">>
    /\ emotions.list = <<"hi">>
    /\ cleaned_text = <<"[", "]">>

\* t without the whitespace at its two ends.
Trimmed(t) ==
    LET solid == {k \in 1..Len(t) : t[k] \notin Whitespace}
    IN  IF solid = {} THEN <<>>
        ELSE SubSeq(t, NthOf(solid, 1), NthOf(solid, Cardinality(solid)))

\* C18 as stated: a text without any bracket pair yields no markers and the
\* original text trimmed.
C18_OriginalTrimmed ==
    (Extracted /\ PairCloses(text, 0) = {}) =>
        /\ emotions.list = <<>>
        /\ cleaned_text = Trimmed(text)

\* C18 amended: a text without a bracketed marker (a bracket pair with
\* non-empty contents) yields no markers and the original text with every
\* whitespace run collapsed to one space and both ends trimmed.
C18_TrimmedAndCollapsed ==
    (Extracted /\ PairCloses(text, 1) = {}) =>
        /\ emotions.list = <<>>
        /\ cleaned_text = PairsRemoved(Trimmed(text), 1)
        /\ Len(cleaned_text) <= Len(Trimmed(text))
        /\ \A k \in 1..Len(cleaned_text) :
            /\ cleaned_text[k] \notin Whitespace \ {" "}
            /\ (k > 1 /\ cleaned_text[k] = " ") => cleaned_text[k - 1] # " "

\* C18 witness: a text without markers and with a run of two spaces inside
\* has been parsed; one space is left.
C18_Witness ==
    /\ Extracted
    /\ text = <<"hi", " ", " ", "hi">>
    /\ emotions.list = <<>>
    /\ cleaned_text = <<"hi", " ", "hi">>

\* The chunks of the last audio answer, put together in arrival order.
InArrivalOrder ==
    IF h_stream = <<>> THEN ""
    ELSE IF Len(h_stream) = 1 THEN h_stream[1]
    ELSE h_stream[1] \o h_stream[2]

C20_State ==
    /\ pc \in {"get_token", "auth", "token_check"} =>
        /\ h_counted = h_call_m
        /\ h_synth_requests = 0
    /\ pc = "synth" => h_counted = h_call_m + 1
    /\ pc = "tts_ret" =>
        h_counted = h_call_m + (IF token # NoToken THEN 1 ELSE 0)

\* What holds of every step that changes the request counter.
C20_Step ==
    /\ (h_counted' # h_counted) =>
        /\ pc = "token_check"
        /\ token # NoToken
        /\ h_synth_requests = 0
        /\ h_counted' = h_counted + 1
        /\ tts_request_count' = tts_request_count + 1
    /\ (tts_request_count' # tts_request_count) =>
        \/ h_counted' = h_counted + 1
        \/ pc = "tts_entry" /\ tts_request_count' = 0

\* C20: in every text_to_speech_v3 call that obtains a token, the request
\* counter is incremented exactly once, by one, before the first synthesis
\* request is sent, however many attempts the call makes and whether or not
\* one succeeds; a call without a token does not increment it.
C20_CountedOnce == []C20_State /\ [][C20_Step]_vars

\* C20 witness: a call with a token has sent 5 synthesis requests, all of
\* them failed, and the counter was incremented once.
C20_Witness ==
    /\ pc = "tts_ret"
    /\ token # NoToken
    /\ h_synth_requests = 5
    /\ audio_bytes = None
    /\ h_counted = h_call_m + 1

\* A dialogue segment whose speaker has a voice / has none.
MappedDialogue(seg) ==
    /\ seg.type = "dialogue"
    /\ seg.speaker \in {"host", "male_guest", "female_guest"}

UnmappedDialogue(seg) ==
    /\ seg.type = "dialogue"
    /\ seg.speaker \notin {"host", "male_guest", "female_guest"}

\* The step places a clip on the canvas.
PlacesClip == Len(final_podcast') = Len(final_podcast) + 1

\* The step leaves the canvas and previous_end_time alone.
NoClipPlaced ==
    /\ final_podcast' = final_podcast
    /\ previous_end_time' = previous_end_time

\* What holds of the fallback in every state.
C13_State ==
    /\ h_fallback_calls <= 1
    /\ pc = "fallback" =>
        /\ MappedDialogue(segment)
        /\ Falsy(audio_bytes)
        /\ h_fallback_calls = 0
    /\ (pc = "write" /\ h_fallback_calls = 0) => ~Falsy(audio_bytes)

\* What holds of every step after text_to_speech_v3 has returned.
C13_Step ==
    /\ pc = "tts_ret" =>
        /\ pc' = IF audio_bytes = None \/ audio_bytes = ""
                 THEN "fallback" ELSE "write"
        /\ h_fallback_calls' = 0
        /\ i' = i
    /\ pc = "fallback" =>
        \/ /\ h_fallback_calls' = 1
           /\ pc' = "write"
           /\ i' = i
           /\ NoClipPlaced
        \/ /\ pc' = "mix"
           /\ i' = i + 1
           /\ NoClipPlaced
    /\ (pc = "write" /\ h_fallback_calls = 1) =>
        /\ pc' = "mix"
        /\ i' = i + 1
        /\ \/ /\ ~Falsy(audio_bytes)
              /\ PlacesClip
              /\ h_clip'.seg = i
              /\ h_clip'.via = "fallback"
           \/ NoClipPlaced

\* C13: when text_to_speech_v3 returns no audio for a mapped dialogue
\* segment, the convert call is made exactly once for that segment and is
\* never repeated; when it returns audio that decodes, that audio is placed
\* as the segment's clip; when it raises (or its audio does not decode) the
\* segment is skipped and the loop goes on with the next segment.
C13_OneFallback == []C13_State /\ [][C13_Step]_vars

\* C13 witness: the clip of the second segment came from the fallback; the
\* first segment left no clip.
C13_Witness ==
    /\ pc = "mix"
    /\ i = 3
    /\ Len(final_podcast) = 1
    /\ h_clip.seg = 2
    /\ h_clip.via = "fallback"

\* The step reads an unmapped dialogue segment from the script.
ReadsUnmapped ==
    /\ pc = "mix"
    /\ UnmappedDialogue(segment')
    /\ i' = i + 1 \/ pc' = "tts_entry"

\* C15: the iteration for a dialogue segment whose speaker has no voice
\* places no clip and leaves previous_end_time unchanged; it goes to the
\* next segment without a text_to_speech_v3 or convert call, hence without
\* an identity or synthesis request, and leaves the cursor, the request
\* counter and the cached token as they are.
C15_UnmappedSkipped ==
    [][ReadsUnmapped =>
        /\ pc' = "mix"
        /\ i' = i + 1
        /\ NoClipPlaced
        /\ h_clip' = h_clip
        /\ h_calls' = h_calls
        /\ h_counted' = h_counted
        /\ h_auth_requests' = h_auth_requests
        /\ h_synth_requests' = h_synth_requests
        /\ h_fallback_calls' = h_fallback_calls
        /\ current_account_index' = current_account_index
        /\ tts_request_count' = tts_request_count
        /\ current_token' = current_token
        /\ accounts' = accounts]_vars

\* C15 witness: an unmapped segment has been skipped after a clip was
\* placed, with a token cached and the counter at 1.
C15_Witness ==
    /\ pc = "mix"
    /\ i = 3
    /\ UnmappedDialogue(segment)
    /\ h_clip.seg = 1
    /\ previous_end_time = final_podcast[1].position + final_podcast[1].length
    /\ current_token # NoToken
    /\ tts_request_count = 1

\* The step sends a request to a remote service.
SendsRequest ==
    \/ h_auth_requests' = h_auth_requests + 1
    \/ h_synth_requests' = h_synth_requests + 1
    \/ h_fallback_calls' = h_fallback_calls + 1

\* C16: clips are placed in script order, and every request is sent for the
\* segment the loop is at: the loop index only moves on by one, when the
\* segment has been placed or skipped, and a request is sent only while the
\* index stands at a mapped dialogue segment none of whose successors has a
\* clip, however the remote calls went.
C16_ScriptOrder ==
    [][/\ i' # i => i' = i + 1
       /\ PlacesClip =>
            /\ h_clip'.seg = i
            /\ h_clip'.seg > h_clip.seg
            /\ i' = i + 1
       /\ SendsRequest =>
            /\ pc \in {"auth", "synth", "fallback"}
            /\ i' = i
            /\ MappedDialogue(segment)
            /\ segment' = segment
            /\ h_clip.seg < i
            /\ NoClipPlaced]_vars

\* C16 witness: two clips are on the canvas, the later one of segment 3.
C16_Witness ==
    /\ pc = "mix"
    /\ i = 4
    /\ Len(final_podcast) = 2
    /\ h_clip.seg = 3

\* create_and_mix_audio is running: its loop, or a call made from it.
Mixing == pc \notin {"main", "loaded", "exit", "done"}

\* The lines of auth.txt that hold a handle and a secret.
CredentialLines(f) == {k \in 1..Len(f.lines) : f.lines[k] = "cred"}

\* Neither a script nor a request has been made.
NothingDone ==
    /\ n_segments = 0
    /\ i = 0
    /\ final_podcast = <<>>
    /\ h_calls = 0
    /\ h_auth_requests = 0
    /\ h_synth_requests = 0
    /\ h_fallback_calls = 0
    /\ current_token = NoToken

\* C19: if auth.txt is missing, empty or without a line handle:secret,
\* load_accounts returns False and main ends at once: no script is
\* generated and no request is sent.  Otherwise the load succeeds with one
\* account for every line handle:secret, the lines without ':' and the
\* blank lines being passed over.
C19_LoadFailureEndsRun ==
    /\ (accounts = <<>> /\ pc # "main") => (pc = "exit" /\ NothingDone)
    /\ h_file # <<>> =>
        IF ~h_file[1].exists \/ CredentialLines(h_file[1]) = {}
        THEN /\ pc = "exit"
             /\ accounts = <<>>
             /\ NothingDone
             /\ ~ENABLED Next
        ELSE /\ pc = "loaded"
             /\ Len(accounts) = Cardinality(CredentialLines(h_file[1]))

\* C19 witness: auth.txt held a line without ':' and a blank line only, and
\* the run is over.
C19_Witness ==
    /\ pc = "exit"
    /\ h_file = <<[exists |-> TRUE, lines |-> <<"nocolon", "blank">>]>>
    /\ accounts = <<>>

\* C14: once the mixing loop has begun, whatever happens to a segment
\* (unmapped speaker, failed authentication, failed synthesis, failed
\* fallback, failed decode), the loop index only moves on by one, the run
\* does not end without the export, and eventually the timeline is exported,
\* once, after the last segment has been visited.
C14_EveryRunExports ==
    /\ Mixing ~> (pc = "done")
    /\ [](pc = "done" => i = n_segments + 1)
    /\ [][/\ Mixing => (pc' # "exit" /\ n_segments' = n_segments)
          /\ (Mixing /\ i' # i) => i' = i + 1
          /\ pc # "done"]_vars

\* C14 witness: the timeline of a script of three segments is exported with
\* no clip on it.
C14_Witness ==
    /\ pc = "done"
    /\ n_segments = 3
    /\ h_calls >= 1
    /\ final_podcast = <<>>

\* C21: a clip is placed at max(planned start, previous_end_time + 500),
\* both taken just before the placement (previous_end_time being 0 at
\* first), and previous_end_time becomes that offset plus the clip's
\* length; so a clip is never placed before its planned start, and is
\* placed at its planned start when that is at least 500 ms after
\* previous_end_time.
C21_Placement ==
    [][PlacesClip =>
        LET planned == segment.start_time * 1000
            clip == final_podcast'[Len(final_podcast')]
        IN  /\ final_podcast = <<>> =>
                previous_end_time = 0
            /\ clip.position =
                IF planned >= previous_end_time + 500
                THEN planned ELSE previous_end_time + 500
            /\ clip.position >= planned
            /\ clip.length > 0
            /\ previous_end_time' = clip.position + clip.length
            /\ SubSeq(final_podcast', 1, Len(final_podcast)) = final_podcast]_vars

\* C21 witness: a second clip placed exactly at its planned start, 500 ms
\* after the end of the first.
C21_Witness ==
    /\ Len(final_podcast) = 2
    /\ h_clip.planned = 2000
    /\ h_clip.before = 1500
    /\ final_podcast[2].position = 2000

\* What holds of the token during and after the synthesis attempts.
C22_State ==
    /\ pc = "synth" =>
        /\ token # NoToken
        /\ current_token = token
    /\ (pc = "tts_ret" /\ token # NoToken) => current_token = token

\* What holds of every step that touches the cached token.
C22_Step ==
    /\ (current_token # NoToken /\ current_token' # current_token) =>
        /\ pc = "tts_entry"
        /\ h_rotations' = h_rotations + 1
        /\ current_token' = NoToken
    /\ pc = "synth" =>
        /\ token' = token
        /\ current_token' = current_token
        /\ current_account_index' = current_account_index
    /\ (pc = "tts_entry" /\ h_rotations' = h_rotations) =>
        /\ current_token' = current_token
        /\ current_account_index' = current_account_index
    /\ (pc = "get_token" /\ current_token # NoToken) =>
        /\ token' = current_token
        /\ pc' = "token_check"
        /\ h_auth_requests' = 0

\* C22: a cached token is discarded by rotation only; a text_to_speech_v3
\* call whose synthesis attempts all fail leaves the cached token and the
\* cursor as they were, all its attempts carry the token the call began
\* with, and the next call that does not rotate takes the cached token
\* without an identity exchange.
C22_TokenKept == []C22_State /\ [][C22_Step]_vars

\* C22 witness: the second call runs on the token of the first, which
\* returned no audio, and has sent 5 failed synthesis requests itself.
C22_Witness ==
    /\ pc = "tts_ret"
    /\ h_call_k = 1
    /\ h_ok = 0
    /\ h_auth_requests = 0
    /\ h_synth_requests = 5
    /\ audio_bytes = None
    /\ token # NoToken
    /\ current_token = token
    /\ current_account_index = 0

\* C23: the request counter is 0, 1 or 2 in every state.
C23_CounterRange == tts_request_count \in {0, 1, 2}

\* C23 witness: the counter is at 2 again after a rotation.
C23_Witness ==
    /\ tts_request_count = 2
    /\ h_rotations >= 1

\* Without a cached token the counter is 0, so that the rotation check
\* fails.
C24_State == current_token = NoToken => tts_request_count = 0

\* C24: as long as no token is cached (every identity exchange for the
\* identity at the cursor fails, or none is sent), text_to_speech_v3 calls
\* change neither the cursor nor the request counter: no rotation, and no
\* exchange for another identity of the pool.
C24_NoRotationWithoutToken ==
    /\ []C24_State
    /\ [][(current_token = NoToken /\ current_token' = NoToken) =>
            /\ current_account_index' = current_account_index
            /\ tts_request_count' = tts_request_count
            /\ h_rotations' = h_rotations]_vars

\* C24 witness: after a rotation to the second identity, the third call in a
\* row has failed all its exchanges, and the cursor is still there.
C24_Witness ==
    /\ pc = "tts_ret"
    /\ h_rotations = 1
    /\ h_calls = 5
    /\ h_counted = 2
    /\ h_auth_requests = 3
    /\ token = NoToken
    /\ Len(accounts) = 3
    /\ current_account_index = 1

\* C25: with an empty pool rotate_account is never executed, and every
\* text_to_speech_v3 call returns None without incrementing the counter and
\* without a request.
C25_EmptyPool ==
    accounts = <<>> =>
        /\ h_rotations = 0
        /\ current_account_index = 0
        /\ tts_request_count = 0
        /\ h_counted = 0
        /\ current_token = NoToken
        /\ token = NoToken
        /\ h_auth_requests = 0
        /\ h_synth_requests = 0
        /\ pc \notin {"auth", "synth"}
        /\ audio_bytes = None

\* C25 witness: the third call on an empty pool has returned, with
\* FIREBASE_API_KEY set.
C25_Witness ==
    /\ accounts = <<>>
    /\ firebase_api_key
    /\ pc = "tts_ret"
    /\ h_calls = 3

\* text_to_speech_v3 has returned the body of a status-200 answer that had
\* no chunks.
EmptyBodyReturned ==
    /\ pc = "tts_ret"
    /\ h_last = "200"
    /\ h_stream = <<>>

\* C26: when the primary synthesis answers 200 with an empty body,
\* text_to_speech_v3 returns b"" with the request counter incremented for
\* the call, and the orchestrator goes on to the fallback convert call for
\* the segment, as it does when text_to_speech_v3 returns None.
C26_EmptyBodyFallsBack ==
    /\ [](EmptyBodyReturned =>
            /\ audio_bytes = ""
            /\ token # NoToken
            /\ h_counted = h_call_m + 1
            /\ h_fallback_calls = 0)
    /\ [][(EmptyBodyReturned \/ (pc = "tts_ret" /\ audio_bytes = None)) =>
            /\ pc' = "fallback"
            /\ i' = i
            /\ segment' = segment
            /\ h_counted' = h_counted
            /\ tts_request_count' = tts_request_count]_vars

\* C26 witness: the fallback is about to be called after a 200 answer
\* without chunks, the counter having been incremented.
C26_Witness ==
    /\ pc = "fallback"
    /\ h_last = "200"
    /\ h_stream = <<>>
    /\ audio_bytes = ""
    /\ h_counted = h_call_m + 1
    /\ tts_request_count = 1

\* The step ends the iteration of a dialogue segment without a clip, or is
\* the iteration of a segment that is no dialogue.
EndsWithoutClip ==
    \/ pc = "fallback" /\ pc' # "write"
    \/ pc = "write" /\ ~PlacesClip
    \/ pc = "mix" /\ i' = i + 1 /\ segment'.type # "dialogue"

\* The end of the last clip on the canvas, 0 for an empty canvas.
LastClipEnd ==
    IF final_podcast = <<>> THEN 0
    ELSE final_podcast[Len(final_podcast)].position
            + final_podcast[Len(final_podcast)].length

\* C27: an iteration that ends without a clip (the fallback raises, the
\* audio cannot be written or decoded) and the iteration of a non-dialogue
\* segment leave previous_end_time and the canvas unchanged and go on to the
\* next segment; previous_end_time is always the end of the last clip
\* placed, so that later clips are placed as if the segment were not in the
\* script.
C27_ClipLessSegments ==
    /\ [](previous_end_time = LastClipEnd)
    /\ [][EndsWithoutClip =>
            /\ NoClipPlaced
            /\ h_clip' = h_clip
            /\ pc' = "mix"
            /\ i' = i + 1]_vars

\* C27 witness: the second segment, a dialogue, has ended without a clip;
\* previous_end_time is still the end of the first segment's clip.
C27_Witness ==
    /\ pc = "mix"
    /\ i = 3
    /\ segment = NoSegment
    /\ h_clip.seg = 1
    /\ Len(final_podcast) = 1
    /\ previous_end_time = final_podcast[1].position + final_podcast[1].length
====
